---------------------------- MODULE Spec2Model ----------------------------
(***************************************************************************)
(* The authentication slice of the ChiselStrike server, server/src/auth.rs *)
(* : the OAuth callback handler, the token lookup handler, the credential  *)
(* extractor and the id-by-username query, running as interleaved tasks    *)
(* over a shared user table (Query Engine) and a shared Session Store      *)
(* (meta service), and the two routes under which init registers the       *)
(* handlers.                                                               *)
(*                                                                         *)
(* Text (query strings, paths, header values, bodies, usernames, tokens)   *)
(* is a sequence of character codes.  An Option is a sequence of length    *)
(* at most one: <<>> is None and <<x>> is Some(x).                         *)
(***************************************************************************)
EXTENDS Integers, Sequences, FiniteSets, Bags, TLC

\* ------------------------------------------------------------------ bounds

\* Number of request tasks that may be suspended at once.
MaxTasks == 2
\* The user table accepts inserts while it holds fewer rows than this.
MaxRows == 2

\* ------------------------------------------------------------- text values

\* "user="
UserKey ==
    <<117, 115, 101, 114, 61>>
\* "/__chiselstrike/auth/user/"
USERPATH ==
    <<47, 95, 95, 99, 104, 105, 115, 101, 108, 115, 116, 114, 105, 107, 101,
      47, 97, 117, 116, 104, 47, 117, 115, 101, 114, 47>>
\* "/__chiselstrike/auth/callback"
CALLBACKPATH ==
    <<47, 95, 95, 99, 104, 105, 115, 101, 108, 115, 116, 114, 105, 107, 101,
      47, 97, 117, 116, 104, 47, 99, 97, 108, 108, 98, 97, 99, 107>>
\* "Callback error: parameter missing"
MsgParameterMissing ==
    <<67, 97, 108, 108, 98, 97, 99, 107, 32, 101, 114, 114, 111, 114, 58, 32,
      112, 97, 114, 97, 109, 101, 116, 101, 114, 32, 109, 105, 115, 115, 105,
      110, 103>>
\* "Callback error: parameter value missing"
MsgValueMissing ==
    <<67, 97, 108, 108, 98, 97, 99, 107, 32, 101, 114, 114, 111, 114, 58, 32,
      112, 97, 114, 97, 109, 101, 116, 101, 114, 32, 118, 97, 108, 117, 101,
      32, 109, 105, 115, 115, 105, 110, 103>>
\* "Callback error: parameter value empty"
MsgValueEmpty ==
    <<67, 97, 108, 108, 98, 97, 99, 107, 32, 101, 114, 114, 111, 114, 58, 32,
      112, 97, 114, 97, 109, 101, 116, 101, 114, 32, 118, 97, 108, 117, 101,
      32, 101, 109, 112, 116, 121>>
\* "Redirecting to <a href='"
RedirectingTo ==
    <<82, 101, 100, 105, 114, 101, 99, 116, 105, 110, 103, 32, 116, 111, 32,
      60, 97, 32, 104, 114, 101, 102, 61, 39>>
\* "'>"
HrefClose ==
    <<39, 62>>
\* "</a>\n"
AnchorClose ==
    <<60, 47, 97, 62, 10>>
\* "http://localhost:3000/profile?chiselstrike_token="
PROFILE_URL ==
    <<104, 116, 116, 112, 58, 47, 47, 108, 111, 99, 97, 108, 104, 111, 115,
      116, 58, 51, 48, 48, 48, 47, 112, 114, 111, 102, 105, 108, 101, 63, 99,
      104, 105, 115, 101, 108, 115, 116, 114, 105, 107, 101, 95, 116, 111,
      107, 101, 110, 61>>
\* "\n"
Newline ==
    <<10>>

\* Status codes of hyper::StatusCode.
TEMPORARY_REDIRECT == 307
BAD_REQUEST == 400
OK == 200

None == <<>>
Some(x) == <<x>>
IsSome(o) == Len(o) = 1
IsNone(o) == Len(o) = 0
Unwrap(o) == o[1]

\* ---------------------------------------------------------- str operations

\* s.starts_with(p)
StartsWith(s, p) ==
    /\ Len(p) <= Len(s)
    /\ SubSeq(s, 1, Len(p)) = p

\* str::strip_prefix: Some(rest) when s starts with p, None otherwise.
strip_prefix(s, p) ==
    IF StartsWith(s, p) THEN Some(SubSeq(s, Len(p) + 1, Len(s))) ELSE None

\* str::contains: needle is a contiguous part of s.
Contains(s, needle) ==
    \E i \in 0..(Len(s) - Len(needle)) :
        SubSeq(s, i + 1, i + Len(needle)) = needle

\* -------------------------------------------------------------- urldecode

Percent == 37

\* Value of one hexadecimal digit, -1 for any other character.
HexVal(c) ==
    IF c >= 48 /\ c <= 57 THEN c - 48
    ELSE IF c >= 97 /\ c <= 102 THEN c - 87
    ELSE IF c >= 65 /\ c <= 70 THEN c - 55
    ELSE -1

\* urldecode::decode: every %XY becomes the character with code 16*X + Y and
\* every other character is kept.  A '%' that is not followed by two
\* hexadecimal digits makes the decoder panic: None.
RECURSIVE urldecode(_)
urldecode(s) ==
    IF s = <<>> THEN Some(<<>>)
    ELSE IF Head(s) # Percent THEN
        LET rest == urldecode(Tail(s))
        IN  IF IsNone(rest) THEN None ELSE Some(<<Head(s)>> \o Unwrap(rest))
    ELSE IF Len(s) < 3 \/ HexVal(s[2]) < 0 \/ HexVal(s[3]) < 0 THEN None
    ELSE
        LET rest == urldecode(SubSeq(s, 4, Len(s)))
        IN  IF IsNone(rest) THEN None
            ELSE Some(<<16 * HexVal(s[2]) + HexVal(s[3])>> \o Unwrap(rest))


\* ------------------------------------------------------------------ inputs

\* Values a callback request may carry after "user=": none, "a", "b", "%61"
\* (which decodes to "a"), and the malformed escape "%6".
Values ==
    {<<>>, <<97>>, <<98>>, <<37, 54, 49>>, <<37, 54>>}

\* Query strings that do not begin with "user=": "" and "usera".
OtherQueries ==
    {<<>>, <<117, 115, 101, 114, 97>>}

\* req.uri().query() of a callback request: None (no '?' in the URI), or the
\* text after the '?'.
Queries ==
    {None}
    \cup {Some(UserKey \o v) : v \in Values}
    \cup {Some(q) : q \in OtherQueries}

\* The n-th token the Session Store mints: the digit n.
Token(n) == <<48 + n>>

\* Token texts a client may send: the first two tokens the store mints, and
\* "x", which the store never mints.
TokenTexts == {Token(1), Token(2), <<120>>}

\* req.uri().path() of a request handed to lookup_user.
Paths ==
    {USERPATH \o tk : tk \in TokenTexts}
    \cup {CALLBACKPATH, SubSeq(USERPATH, 1, Len(USERPATH) - 1)}

\* req.headers().get("ChiselStrikeToken"): None, or the header's bytes
\* (<<200>> is a byte outside visible ASCII).
Headers == {None} \cup {Some(tk) : tk \in TokenTexts \cup {<<200>>}}

\* ------------------------------------------------------------------- state

VARIABLES
    type_system,    \* runtime::get().type_system: the registered builtin types
    unique,         \* whether the backing table declares username UNIQUE
    table,          \* the backing table of OAuthUser: a sequence of rows
    sessions,       \* the Session Store: [token, username] in mint order
    tasks,          \* the bag of suspended tasks: handler, await, request, local
    returned,       \* what the step just taken returned to its caller, if anything
    client_tokens   \* [token, req]: the tokens clients got, each with its request

vars == <<type_system, unique, table, sessions, tasks, returned, client_tokens>>

OAUTHUSER_TYPE_NAME == "OAuthUser"

\* The builtin user type as the type system registers it.
OAuthUserType ==
    [kind |-> "Object", name |-> OAUTHUSER_TYPE_NAME,
     fields |-> {"id", "username"}, backing_table |-> "OAuthUser"]

\* ---------------------------------------------------------------- results

\* Response<Body> inside Ok(..).
Response(status, location, body) ==
    [tag |-> "Ok", status |-> status, location |-> location, body |-> body,
     error |-> "", value |-> None]

\* Err(anyhow::Error).
Err(e) ==
    [tag |-> "Err", status |-> 0, location |-> None, body |-> <<>>,
     error |-> e, value |-> None]

\* Ok(Option<String>) of the credential extractor.
OkValue(v) ==
    [tag |-> "Ok", status |-> 0, location |-> None, body |-> <<>>,
     error |-> "", value |-> v]

\* The task unwound by a panic: no result is produced.
Panicked ==
    [tag |-> "Panic", status |-> 0, location |-> None, body |-> <<>>,
     error |-> "panic", value |-> None]

\* ------------------------------------------------------------ runtime lock

\* What the handler `kind` does with the guard of runtime::get() on its way to
\* the await `pc`, if every guard were kept in a `let` binding until the end
\* of the function.
RuntimeScript_bound(kind, pc) ==
    IF kind = "callback" /\ pc = "add_row" THEN <<"get", "drop", "get">>
    ELSE IF kind = "userid" THEN <<"get", "drop", "get">>
    ELSE <<"get">>

\* What the handler `kind` does with the guard of runtime::get() from its
\* start, or from its previous await, to the await `pc`.  Each guard is a
\* temporary of the statement that clones a handle out of the runtime, and
\* is dropped when that statement (or the match of get_oauth_user_type) ends.
RuntimeScript(kind, pc) ==
    IF kind = "callback" /\ pc = "add_row" THEN
        <<"get", "drop", "get", "drop">>
    ELSE IF kind = "callback" /\ pc = "new_session_token" THEN
        <<"get", "drop">>
    ELSE IF kind = "lookup" THEN
        <<"get", "drop">>
    ELSE IF kind = "userid" THEN
        <<"get", "drop", "get", "drop">>
    ELSE
        <<"get", "drop">>

\* Number of guards that are alive after the events of `script`.
RECURSIVE GuardsAfter(_)
GuardsAfter(script) ==
    IF script = <<>> THEN 0
    ELSE LET before == GuardsAfter(SubSeq(script, 1, Len(script) - 1))
         IN  IF script[Len(script)] = "get" THEN before + 1 ELSE before - 1

\* A task of handler `kind` suspended at the await `pc`, with the number of
\* runtime guards it holds while suspended.
Task(kind, pc, req, local) ==
    [kind |-> kind, pc |-> pc, req |-> req, local |-> local,
     guards |-> GuardsAfter(RuntimeScript(kind, pc))]

\* The return of handler `kind`, called with `req`, out of its stage `at`.
Return(kind, req, at, result) ==
    Some([kind |-> kind, req |-> req, at |-> at, resp |-> result])

\* The callback `task`, its insert done, suspended at its mint.
MintTask(task) == Task("callback", "new_session_token", task.req, task.local)

Suspended == BagToSet(tasks)
Suspend(task) == tasks (+) SetToBag({task})
Resume(task) == tasks (-) SetToBag({task})

\* --------------------------------------------------------------- responses

redirect(link) ==
    Response(TEMPORARY_REDIRECT, Some(link),
             RedirectingTo \o link \o HrefClose \o link \o AnchorClose)

bad_request(msg) ==
    Response(BAD_REQUEST, None, msg \o Newline)

\* ------------------------------------------------------------ Type Registry

\* type_system.lookup_builtin_type(name)
lookup_builtin_type(name) ==
    LET found == {ty \in type_system : ty.name = name}
    IN  IF found = {} THEN None ELSE Some(CHOOSE ty \in found : TRUE)

get_oauth_user_type ==
    LET r == lookup_builtin_type(OAUTHUSER_TYPE_NAME)
    IN  IF IsSome(r) /\ Unwrap(r).kind = "Object" THEN r ELSE None

\* ------------------------------------------------------------ Query Engine

\* query_engine.add_row(ty, user): one INSERT into ty's backing table with the
\* value map's keys as columns.  fault is a failure of the store itself.
add_row(ty, user, rows, fault) ==
    IF ~(DOMAIN user \subseteq ty.fields) THEN
        [error |-> "SchemaMismatch", rows |-> rows]
    ELSE IF fault THEN
        [error |-> "StorageError", rows |-> rows]
    ELSE IF unique /\ \E i \in 1..Len(rows) : rows[i].username = user.username THEN
        [error |-> "StorageError", rows |-> rows]
    ELSE
        [error |-> "",
         rows |-> Append(rows, [id |-> Len(rows) + 1, username |-> user.username])]

\* query_engine.fetch_one of `SELECT id FROM <table> WHERE username=$1`: the
\* id of the one row that matches.  fault is a failure of the store itself.
fetch_one(rows, username, fault) ==
    LET matching == {i \in 1..Len(rows) : rows[i].username = username}
    IN  IF fault THEN [error |-> "StorageError", id |-> 0]
        ELSE IF matching = {} THEN [error |-> "NotFound", id |-> 0]
        ELSE IF Cardinality(matching) > 1 THEN [error |-> "AmbiguousResult", id |-> 0]
        ELSE [error |-> "", id |-> rows[CHOOSE i \in matching : TRUE].id]

\* ------------------------------------------------------------ Session Store

\* meta.new_session_token(username): a fresh token, recorded with username.
new_session_token(store, username, fault) ==
    IF fault THEN [error |-> "StorageError", token |-> <<>>, store |-> store]
    ELSE LET tk == Token(Len(store) + 1)
         IN  [error |-> "", token |-> tk,
              store |-> Append(store, [token |-> tk, username |-> username])]

\* meta.get_username(token): the username recorded with token.
meta_get_username(store, token) ==
    LET found == {i \in 1..Len(store) : store[i].token = token}
    IN  IF found = {} THEN None
        ELSE Some(store[CHOOSE i \in found : TRUE].username)

\* ---------------------------------------------------------- handle_callback

\* callback_username without line 89: the value is used as it was sent.
callback_username_undecoded(params) ==
    IF IsNone(params) THEN
        [tag |-> "Return", resp |-> bad_request(MsgParameterMissing), username |-> <<>>]
    ELSE
        LET username == strip_prefix(Unwrap(params), UserKey)
        IN  IF IsNone(username) THEN
                [tag |-> "Return", resp |-> bad_request(MsgValueMissing), username |-> <<>>]
            ELSE IF Unwrap(username) = <<>> THEN
                [tag |-> "Return", resp |-> bad_request(MsgValueEmpty), username |-> <<>>]
            ELSE
                [tag |-> "Username", resp |-> Panicked, username |-> Unwrap(username)]

\* callback_username without the is_empty check of lines 86-88.
callback_username_unchecked(params) ==
    IF IsNone(params) THEN
        [tag |-> "Return", resp |-> bad_request(MsgParameterMissing), username |-> <<>>]
    ELSE
        LET username == strip_prefix(Unwrap(params), UserKey)
        IN  IF IsNone(username) THEN
                [tag |-> "Return", resp |-> bad_request(MsgValueMissing), username |-> <<>>]
            ELSE
                LET decoded == urldecode(Unwrap(username))
                IN  IF IsNone(decoded) THEN
                        [tag |-> "Panic", resp |-> Panicked, username |-> <<>>]
                    ELSE
                        [tag |-> "Username", resp |-> Panicked, username |-> Unwrap(decoded)]

\* callback_username with the two checks of lines 79-88 merged
\* (`strip_prefix(..).unwrap_or("")`): an absent key is reported as an empty
\* value.
callback_username_merged(params) ==
    IF IsNone(params) THEN
        [tag |-> "Return", resp |-> bad_request(MsgParameterMissing), username |-> <<>>]
    ELSE
        LET username == strip_prefix(Unwrap(params), UserKey)
        IN  IF IsNone(username) \/ Unwrap(username) = <<>> THEN
                [tag |-> "Return", resp |-> bad_request(MsgValueEmpty), username |-> <<>>]
            ELSE
                LET decoded == urldecode(Unwrap(username))
                IN  IF IsNone(decoded) THEN
                        [tag |-> "Panic", resp |-> Panicked, username |-> <<>>]
                    ELSE
                        [tag |-> "Username", resp |-> Panicked, username |-> Unwrap(decoded)]

\* What handle_callback makes of the query before it touches the store: a
\* 400 response, a panic of the decoder, or the decoded username.
callback_username(params) ==
    IF IsNone(params) THEN
        [tag |-> "Return", resp |-> bad_request(MsgParameterMissing), username |-> <<>>]
    ELSE
        LET username == strip_prefix(Unwrap(params), UserKey)
        IN  IF IsNone(username) THEN
                [tag |-> "Return", resp |-> bad_request(MsgValueMissing), username |-> <<>>]
            ELSE IF Unwrap(username) = <<>> THEN
                [tag |-> "Return", resp |-> bad_request(MsgValueEmpty), username |-> <<>>]
            ELSE
                LET decoded == urldecode(Unwrap(username))
                IN  IF IsNone(decoded) THEN
                        [tag |-> "Panic", resp |-> Panicked, username |-> <<>>]
                    ELSE
                        [tag |-> "Username", resp |-> Panicked, username |-> Unwrap(decoded)]

\* A callback request arrives.  The handler validates the query, decodes the
\* username, looks up the user type and suspends on add_row.
handle_callback(params) ==
    /\ BagCardinality(tasks) < MaxTasks
    /\ LET parsed == callback_username(params)
       IN  IF parsed.tag = "Return" THEN
               /\ returned' = Return("callback", params, "parse", parsed.resp)
               /\ tasks' = tasks
           ELSE IF parsed.tag = "Panic" THEN
               /\ returned' = Return("callback", params, "urldecode", Panicked)
               /\ tasks' = tasks
           ELSE IF IsNone(get_oauth_user_type) THEN
               /\ returned' = Return("callback", params, "get_oauth_user_type",
                                 Err("TypeNotFound"))
               /\ tasks' = tasks
           ELSE
               /\ returned' = None
               /\ tasks' = Suspend(Task("callback", "add_row", params, parsed.username))
    /\ UNCHANGED <<type_system, unique, table, sessions, client_tokens>>

\* insert_user_into_db whose failure is dropped (`let _ = ..await;`): the
\* handler goes on to the token whether or not the row was inserted.
insert_user_into_db_ignored(task) ==
    /\ task.kind = "callback"
    /\ task.pc = "add_row"
    /\ \E fault \in BOOLEAN :
         LET user == [username |-> task.local]
             r == add_row(Unwrap(get_oauth_user_type), user, table, fault)
         IN  /\ r.error = "" => Len(table) < MaxRows
             /\ table' = r.rows
             /\ tasks' = Resume(task) (+) SetToBag({MintTask(task)})
             /\ returned' = None
    /\ UNCHANGED <<type_system, unique, sessions, client_tokens>>

\* insert_user_into_db whose failure is answered as a client error instead
\* of being propagated.
insert_user_into_db_bad_request(task) ==
    /\ task.kind = "callback"
    /\ task.pc = "add_row"
    /\ \E fault \in BOOLEAN :
         LET user == [username |-> task.local]
             r == add_row(Unwrap(get_oauth_user_type), user, table, fault)
         IN  /\ r.error = "" => Len(table) < MaxRows
             /\ table' = r.rows
             /\ IF r.error = "" THEN
                    /\ tasks' = Resume(task) (+) SetToBag({MintTask(task)})
                    /\ returned' = None
                ELSE
                    /\ tasks' = Resume(task)
                    /\ returned' = Return("callback", task.req, "add_row",
                                          bad_request(MsgValueMissing))
    /\ UNCHANGED <<type_system, unique, sessions, client_tokens>>

\* The add_row that `task` awaits completes.  On failure the error leaves
\* handle_callback through `?`; on success the handler goes on to ask the
\* Session Store for a token and suspends on it.
insert_user_into_db(task) ==
    /\ task.kind = "callback"
    /\ task.pc = "add_row"
    /\ \E fault \in BOOLEAN :
         LET user == [username |-> task.local]
             r == add_row(Unwrap(get_oauth_user_type), user, table, fault)
         IN  /\ r.error = "" => Len(table) < MaxRows
             /\ table' = r.rows
             /\ IF r.error = "" THEN
                    /\ tasks' = Resume(task) (+) SetToBag({MintTask(task)})
                    /\ returned' = None
                ELSE
                    /\ tasks' = Resume(task)
                    /\ returned' = Return("callback", task.req, "add_row", Err(r.error))
    /\ UNCHANGED <<type_system, unique, sessions, client_tokens>>

\* The token a redirect response carries in its Location.
LocationToken(resp) ==
    strip_prefix(Unwrap(resp.location), PROFILE_URL)

\* callback_redirect that mints for the wrong one of the shadowed `username`
\* bindings: the query as it was sent.
callback_redirect_shadowed(task) ==
    /\ task.kind = "callback"
    /\ task.pc = "new_session_token"
    /\ \E fault \in BOOLEAN :
         LET r == new_session_token(sessions, Unwrap(task.req), fault)
             resp == redirect(PROFILE_URL \o r.token)
         IN  /\ sessions' = r.store
             /\ tasks' = Resume(task)
             /\ IF r.error = "" THEN
                    /\ returned' = Return("callback", task.req, "new_session_token", resp)
                    /\ client_tokens' = client_tokens \cup
                         {[token |-> Unwrap(LocationToken(resp)), req |-> task.req]}
                ELSE
                    /\ returned' = Return("callback", task.req, "new_session_token",
                                          Err(r.error))
                    /\ client_tokens' = client_tokens
    /\ UNCHANGED <<type_system, unique, table>>

\* callback_redirect that takes the username from a slot shared by all
\* callbacks, the user inserted last, instead of its own local.
callback_redirect_last_user(task) ==
    /\ task.kind = "callback"
    /\ task.pc = "new_session_token"
    /\ \E fault \in BOOLEAN :
         LET r == new_session_token(sessions, table[Len(table)].username, fault)
             resp == redirect(PROFILE_URL \o r.token)
         IN  /\ sessions' = r.store
             /\ tasks' = Resume(task)
             /\ IF r.error = "" THEN
                    /\ returned' = Return("callback", task.req, "new_session_token", resp)
                    /\ client_tokens' = client_tokens \cup
                         {[token |-> Unwrap(LocationToken(resp)), req |-> task.req]}
                ELSE
                    /\ returned' = Return("callback", task.req, "new_session_token",
                                          Err(r.error))
                    /\ client_tokens' = client_tokens
    /\ UNCHANGED <<type_system, unique, table>>

\* callback_redirect that undoes the insert when the mint fails: the rows of
\* its username are deleted before the failure is returned.
callback_redirect_rollback(task) ==
    /\ task.kind = "callback"
    /\ task.pc = "new_session_token"
    /\ \E fault \in BOOLEAN :
         LET r == new_session_token(sessions, task.local, fault)
             resp == redirect(PROFILE_URL \o r.token)
         IN  /\ sessions' = r.store
             /\ tasks' = Resume(task)
             /\ IF r.error = "" THEN
                    /\ returned' = Return("callback", task.req, "new_session_token", resp)
                    /\ client_tokens' = client_tokens \cup
                         {[token |-> Unwrap(LocationToken(resp)), req |-> task.req]}
                    /\ table' = table
                ELSE
                    /\ returned' = Return("callback", task.req, "new_session_token",
                                          Err(r.error))
                    /\ client_tokens' = client_tokens
                    /\ table' = SelectSeq(table, LAMBDA row : row.username # task.local)
    /\ UNCHANGED <<type_system, unique>>

\* The new_session_token that `task` awaits completes: the handler answers
\* with the redirect that carries the token, or fails with the store's
\* error.  The client then holds the token of the Location.
callback_redirect(task) ==
    /\ task.kind = "callback"
    /\ task.pc = "new_session_token"
    /\ \E fault \in BOOLEAN :
         LET r == new_session_token(sessions, task.local, fault)
             resp == redirect(PROFILE_URL \o r.token)
         IN  /\ sessions' = r.store
             /\ tasks' = Resume(task)
             /\ IF r.error = "" THEN
                    /\ returned' = Return("callback", task.req, "new_session_token", resp)
                    /\ client_tokens' = client_tokens \cup
                         {[token |-> Unwrap(LocationToken(resp)), req |-> task.req]}
                ELSE
                    /\ returned' = Return("callback", task.req, "new_session_token",
                                      Err(r.error))
                    /\ client_tokens' = client_tokens
    /\ UNCHANGED <<type_system, unique, table>>

\* -------------------------------------------------------------- lookup_user

\* A lookup request arrives: the token is what follows USERPATH.
lookup_user(path) ==
    /\ BagCardinality(tasks) < MaxTasks
    /\ LET token == strip_prefix(path, USERPATH)
       IN  IF IsNone(token) THEN
               /\ returned' = Return("lookup", Some(path), "strip_prefix",
                                 Err("MalformedRequest"))
               /\ tasks' = tasks
           ELSE
               /\ returned' = None
               /\ tasks' = Suspend(Task("lookup", "get_username", Some(path), Unwrap(token)))
    /\ UNCHANGED <<type_system, unique, table, sessions, client_tokens>>

\* lookup_user_respond with `.unwrap_or_default()` for `?`: an unknown token
\* is answered 200 with an empty body.
lookup_user_respond_default(task) ==
    /\ task.kind = "lookup"
    /\ task.pc = "get_username"
    /\ LET r == meta_get_username(sessions, task.local)
       IN  returned' = Return("lookup", task.req, "get_username",
                              IF IsNone(r) THEN Response(OK, None, <<>>)
                              ELSE Response(OK, None, Unwrap(r)))
    /\ tasks' = Resume(task)
    /\ UNCHANGED <<type_system, unique, table, sessions, client_tokens>>

\* lookup_user_respond that ends the body with a newline, as bad_request
\* does.
lookup_user_respond_newline(task) ==
    /\ task.kind = "lookup"
    /\ task.pc = "get_username"
    /\ LET r == meta_get_username(sessions, task.local)
       IN  returned' = Return("lookup", task.req, "get_username",
                              IF IsNone(r) THEN Err("TokenNotFound")
                              ELSE Response(OK, None, Unwrap(r) \o Newline))
    /\ tasks' = Resume(task)
    /\ UNCHANGED <<type_system, unique, table, sessions, client_tokens>>

\* lookup_user_respond over one-time tokens: a token that resolved is
\* removed from the Session Store.
lookup_user_respond_consuming(task) ==
    /\ task.kind = "lookup"
    /\ task.pc = "get_username"
    /\ LET r == meta_get_username(sessions, task.local)
       IN  /\ returned' = Return("lookup", task.req, "get_username",
                                 IF IsNone(r) THEN Err("TokenNotFound")
                                 ELSE Response(OK, None, Unwrap(r)))
           /\ sessions' = SelectSeq(sessions, LAMBDA b : b.token # task.local)
    /\ tasks' = Resume(task)
    /\ UNCHANGED <<type_system, unique, table, client_tokens>>

\* The meta.get_username that the lookup task awaits completes.
lookup_user_respond(task) ==
    /\ task.kind = "lookup"
    /\ task.pc = "get_username"
    /\ LET r == meta_get_username(sessions, task.local)
       IN  returned' = Return("lookup", task.req, "get_username",
                          IF IsNone(r) THEN Err("TokenNotFound")
                          ELSE Response(OK, None, Unwrap(r)))
    /\ tasks' = Resume(task)
    /\ UNCHANGED <<type_system, unique, table, sessions, client_tokens>>

\* ------------------------------------------------------------- get_username

\* HeaderValue::to_str: the bytes as text, when all are visible ASCII.
to_str(bytes) ==
    IF \A i \in 1..Len(bytes) : (bytes[i] >= 32 /\ bytes[i] < 127) \/ bytes[i] = 9
    THEN Some(bytes) ELSE None

\* Some handler asks for the credentials of a request whose ChiselStrikeToken
\* header is `header`.
get_username(header) ==
    /\ BagCardinality(tasks) < MaxTasks
    /\ IF IsNone(header) THEN
           /\ returned' = Return("extract", header, "headers", OkValue(None))
           /\ tasks' = tasks
       ELSE IF IsNone(to_str(Unwrap(header))) THEN
           /\ returned' = Return("extract", header, "to_str", Err("ToStrError"))
           /\ tasks' = tasks
       ELSE
           /\ returned' = None
           /\ tasks' = Suspend(Task("extract", "get_username", header,
                                    Unwrap(to_str(Unwrap(header)))))
    /\ UNCHANGED <<type_system, unique, table, sessions, client_tokens>>

\* The meta.get_username that the extractor task awaits completes; .ok()
\* turns its failure into None.
get_username_return(task) ==
    /\ task.kind = "extract"
    /\ task.pc = "get_username"
    /\ returned' = Return("extract", task.req, "get_username",
                      OkValue(meta_get_username(sessions, task.local)))
    /\ tasks' = Resume(task)
    /\ UNCHANGED <<type_system, unique, table, sessions, client_tokens>>

\* ------------------------------------------------------- get_userid_from_db

\* Usernames whose id is asked for: "a".
UseridNames == {<<97>>}

\* Some caller asks for the id of `username`: the user type is looked up and
\* the task suspends on fetch_one.
get_userid_from_db(username) ==
    /\ BagCardinality(tasks) < MaxTasks
    /\ IF IsNone(get_oauth_user_type) THEN
           /\ returned' = Return("userid", Some(username), "get_oauth_user_type",
                                 Err("TypeNotFound"))
           /\ tasks' = tasks
       ELSE
           /\ returned' = None
           /\ tasks' = Suspend(Task("userid", "fetch_one", Some(username), username))
    /\ UNCHANGED <<type_system, unique, table, sessions, client_tokens>>

\* The fetch_one that `task` awaits completes: its failure leaves through
\* `?`, its row gives the id.
get_userid_from_db_return(task) ==
    /\ task.kind = "userid"
    /\ task.pc = "fetch_one"
    /\ \E fault \in BOOLEAN :
         LET r == fetch_one(table, task.local, fault)
         IN  returned' = Return("userid", task.req, "fetch_one",
                                IF r.error = "" THEN OkValue(Some(r.id))
                                ELSE Err(r.error))
    /\ tasks' = Resume(task)
    /\ UNCHANGED <<type_system, unique, table, sessions, client_tokens>>

\* ---------------------------------------------------- Route Table / dispatch

Slash == 47
NOT_FOUND == 404

\* init with the handlers of its two add_route calls exchanged.
Routes_swapped ==
    {[path |-> CALLBACKPATH, handler |-> "lookup_user"],
     [path |-> USERPATH, handler |-> "handle_callback"]}

\* The route table after init: what its two add_route calls registered.
Routes ==
    {[path |-> CALLBACKPATH, handler |-> "handle_callback"],
     [path |-> USERPATH, handler |-> "lookup_user"]}

\* add_route registers a prefix match for a path that ends with the prefix
\* marker '/', and an exact match for any other path.
IsPrefixRoute(r) ==
    /\ r.path # <<>>
    /\ r.path[Len(r.path)] = Slash

\* dispatch: the handler of the most specific route that matches path.  An
\* exact match wins over a prefix match; among prefix matches the longest
\* prefix wins; None when no route matches.
dispatch(routes, path) ==
    LET exact == {r \in routes : ~IsPrefixRoute(r) /\ r.path = path}
        prefix == {r \in routes : IsPrefixRoute(r) /\ StartsWith(path, r.path)}
        longest == {r \in prefix : \A q \in prefix : Len(q.path) <= Len(r.path)}
    IN  IF exact # {} THEN Some((CHOOSE r \in exact : TRUE).handler)
        ELSE IF longest # {} THEN Some((CHOOSE r \in longest : TRUE).handler)
        ELSE None

\* Paths of the requests that reach the dispatcher: those of Paths, the
\* lookup path with an empty token, and a path below the callback path.
RequestPaths ==
    Paths \cup {USERPATH, CALLBACKPATH \o <<Slash>> \o Token(1)}

\* The requests that reach the dispatcher: a callback request with any of
\* Queries, and a request without a query for every other path.
Requests ==
    {[path |-> CALLBACKPATH, query |-> params] : params \in Queries}
    \cup {[path |-> path, query |-> None] : path \in RequestPaths \ {CALLBACKPATH}}

\* A request for `path` with query `params` reaches the dispatcher, which
\* calls the handler of the matching route.  With no matching route the HTTP
\* layer answers not found and no handler runs.
route(path, params) ==
    LET handler == dispatch(Routes, path)
    IN  IF handler = Some("handle_callback") THEN handle_callback(params)
        ELSE IF handler = Some("lookup_user") THEN lookup_user(path)
        ELSE
            /\ returned' = Return("dispatch", Some(path), "dispatch",
                                  Response(NOT_FOUND, None, <<>>))
            /\ UNCHANGED <<type_system, unique, table, sessions, tasks, client_tokens>>

\* ------------------------------------------------------------ specification

Init ==
    /\ type_system \in {{OAuthUserType}, {}}
    /\ unique \in BOOLEAN
    /\ table = <<>>
    /\ sessions = <<>>
    /\ tasks = EmptyBag
    /\ returned = None
    /\ client_tokens = {}

Next ==
    \/ \E params \in Queries : handle_callback(params)
    \/ \E task \in Suspended : insert_user_into_db(task)
    \/ \E task \in Suspended : callback_redirect(task)
    \/ \E path \in Paths : lookup_user(path)
    \/ \E task \in Suspended : lookup_user_respond(task)
    \/ \E header \in Headers : get_username(header)
    \/ \E task \in Suspended : get_username_return(task)
    \/ \E username \in UseridNames : get_userid_from_db(username)
    \/ \E task \in Suspended : get_userid_from_db_return(task)

Spec == Init /\ [][Next]_vars

\* The two routes as init sets them up: every callback and lookup request
\* arrives through the dispatcher.
RouteNext ==
    \/ \E req \in Requests : route(req.path, req.query)
    \/ \E task \in Suspended : insert_user_into_db(task)
    \/ \E task \in Suspended : callback_redirect(task)
    \/ \E task \in Suspended : lookup_user_respond(task)

RouteSpec == Init /\ [][RouteNext]_vars

\* ------------------------------------------------------------- observations

\* Rows of the user table whose username is u.
Rows(u) == {i \in 1..Len(table) : table[i].username = u}

\* Tokens of the Session Store that are bound to u.
SessionsOf(u) == {i \in 1..Len(sessions) : sessions[i].username = u}

\* The `user` value of a callback query that begins with "user=".
UserValue(params) == Unwrap(strip_prefix(Unwrap(params), UserKey))

\* The username a callback request asks for: its URL-decoded `user` value.
RequestedUsername(params) == urldecode(UserValue(params))

\* Tokens handed to clients in redirects of callbacks that asked for u.
RedirectsOf(u) == {c \in client_tokens : RequestedUsername(c.req) = Some(u)}

\* Suspended callback tasks.
Callbacks == {task \in Suspended : task.kind = "callback"}

\* Number of callback tasks for u that are suspended at the await `pc`.
AwaitingOf(u, pc) ==
    LET S == {task \in Callbacks : task.pc = pc /\ task.local = u}
    IN  BagCardinality([task \in S |-> CopiesIn(task, tasks)])

\* Usernames the system has seen.
Usernames ==
    {table[i].username : i \in 1..Len(table)}
    \cup {sessions[i].username : i \in 1..Len(sessions)}
    \cup {task.local : task \in Callbacks}

\* The return just made, if it is one of handler `kind`.
ReturnsOf(kind) == {returned[i] : i \in {j \in DOMAIN returned : returned[j].kind = kind}}

\* `task`, suspended before this step, ended in it.
Ended(task) == tasks' = Resume(task)

\* ------------------------------------------------------------------ claims

\* C1: a callback for `user=<v>`, v not empty, whose insert and whose token
\* mint both succeed returns a 307 redirect; on return the user table holds a
\* row whose username is the URL-decoded v, and the token in the redirect's
\* Location resolves in the Session Store to that decoded username.
C1_SuccessfulCallback ==
    [][\A task \in Callbacks :
         (task.pc = "new_session_token" /\ Ended(task) /\ Len(sessions') > Len(sessions))
         => LET decoded == RequestedUsername(task.req)
                resp == Unwrap(returned').resp
            IN  /\ UserValue(task.req) # <<>>
                /\ IsSome(decoded)
                /\ \E i \in 1..Len(table') : table'[i].username = Unwrap(decoded)
                /\ IsSome(returned')
                /\ resp.tag = "Ok"
                /\ resp.status = TEMPORARY_REDIRECT
                /\ IsSome(resp.location)
                /\ IsSome(LocationToken(resp))
                /\ meta_get_username(sessions', Unwrap(LocationToken(resp)))
                     = decoded]_vars

\* A callback for `user=%61` has just returned its redirect.
C1_Witness ==
    \E r \in ReturnsOf("callback") :
        /\ r.req = Some(UserKey \o <<37, 54, 49>>)
        /\ r.resp.status = TEMPORARY_REDIRECT

\* No callback for u is suspended: all that were made have finished.
Finished(u) == \A task \in Callbacks : task.local # u

\* C2: once every callback carrying a username u has finished, and one of
\* them was answered with a redirect, the user table holds exactly one row
\* with username u, with or without a uniqueness constraint on the table.
C2_ExactlyOnce ==
    \A u \in Usernames :
        (RedirectsOf(u) # {} /\ Finished(u)) => Cardinality(Rows(u)) = 1

\* C3 as stated: on a table that enforces uniqueness, of two callbacks for
\* the same username one inserts and returns a redirect with a token and the
\* other is refused.  So when a callback for u has just failed at its insert,
\* the row for u is there and no callback for u is left, exactly one redirect
\* with a token has been returned for u.
C3_OneRedirect ==
    unique =>
        \A r \in ReturnsOf("callback") :
            r.at = "add_row" =>
                LET u == Unwrap(RequestedUsername(r.req))
                IN  (Rows(u) # {} /\ Finished(u))
                    => Cardinality(RedirectsOf(u)) = 1

\* C3, amended: on a table that enforces uniqueness at most one insert per
\* username succeeds, only a callback whose insert succeeded goes on to mint,
\* at most one redirect with a token is returned per username, and a callback
\* whose insert fails returns the StorageError as a failure: no redirect.
C3_DecidedByStore ==
    unique =>
        /\ \A u \in Usernames :
             /\ Cardinality(Rows(u)) <= 1
             /\ Cardinality(SessionsOf(u)) + AwaitingOf(u, "new_session_token")
                  <= Cardinality(Rows(u))
             /\ Cardinality(RedirectsOf(u)) <= Cardinality(SessionsOf(u))
        /\ \A r \in ReturnsOf("callback") :
             r.at = "add_row" =>
                 /\ r.resp.tag = "Err"
                 /\ r.resp.error = "StorageError"
                 /\ IsNone(r.resp.location)

\* On a unique table a callback for u has just failed at its insert, after
\* another callback for u inserted the row and returned its redirect.
C3_Witness ==
    /\ unique
    /\ \E r \in ReturnsOf("callback") :
         /\ r.at = "add_row"
         /\ \E u \in Usernames :
              /\ RequestedUsername(r.req) = Some(u)
              /\ Rows(u) # {}
              /\ RedirectsOf(u) # {}

InsertErrors == {"TypeNotFound", "SchemaMismatch", "StorageError"}

\* C4: in the callback the insert comes before the mint (every token minted
\* or about to be minted for u is matched by a row for u), and a failed
\* insert ends the callback: the failure is the handler's result, not a 400
\* and not a 307, and the Session Store is as it was.
C4_FailedInsertIsTerminal ==
    /\ [](\A u \in Usernames :
            Cardinality(SessionsOf(u)) + AwaitingOf(u, "new_session_token")
              <= Cardinality(Rows(u)))
    /\ [][\A task \in Callbacks :
            (task.pc = "add_row" /\ Ended(task))
            => /\ table' = table
               /\ IsSome(returned')
               /\ Unwrap(returned').resp.tag = "Err"
               /\ Unwrap(returned').resp.error \in InsertErrors
               /\ Unwrap(returned').resp.status \notin {BAD_REQUEST, TEMPORARY_REDIRECT}
               /\ sessions' = sessions]_vars
    /\ [][\A r \in {returned'[i] : i \in DOMAIN returned'} :
            (r.kind = "callback" /\ r.at = "get_oauth_user_type")
            => /\ r.resp.tag = "Err"
               /\ r.resp.error \in InsertErrors
               /\ sessions' = sessions
               /\ tasks' = tasks]_vars

\* A callback has just failed at its insert while the Session Store already
\* holds a token.
C4_Witness ==
    /\ sessions # <<>>
    /\ \E r \in ReturnsOf("callback") : r.at = "add_row" /\ r.resp.tag = "Err"

\* C5: every token recorded in the Session Store is bound to a username that
\* has a row in the user table.
C5_TokenHasUserRow ==
    \A i \in 1..Len(sessions) : Rows(sessions[i].username) # {}

\* The Session Store holds a token while a lookup and a credential
\* extraction are under way.
C5_Witness ==
    /\ sessions # <<>>
    /\ \E task \in Suspended : task.kind = "lookup"
    /\ \E task \in Suspended : task.kind = "extract"

\* C6: no two token mints return equal tokens, and every token handed out
\* in a redirect resolves, now and after any later callbacks, to the username
\* its callback asked for.
C6_TokensUniqueAndStable ==
    /\ \A i, j \in 1..Len(sessions) :
         sessions[i].token = sessions[j].token => i = j
    /\ \A c \in client_tokens :
         /\ IsSome(RequestedUsername(c.req))
         /\ meta_get_username(sessions, c.token) = RequestedUsername(c.req)

\* Two tokens have been handed out, to callbacks for two different usernames.
C6_Witness ==
    /\ Len(sessions) = 2
    /\ \E c, d \in client_tokens :
         /\ c.token = Token(1)
         /\ d.token = Token(2)
         /\ RequestedUsername(c.req) # RequestedUsername(d.req)

\* "parameter missing"
ParameterMissing ==
    <<112, 97, 114, 97, 109, 101, 116, 101, 114, 32, 109, 105, 115, 115, 105,
      110, 103>>
\* "value empty"
ValueEmpty ==
    <<118, 97, 108, 117, 101, 32, 101, 109, 112, 116, 121>>
\* "missing"
MissingWord ==
    <<109, 105, 115, 115, 105, 110, 103>>
\* "empty"
EmptyWord ==
    <<101, 109, 112, 116, 121>>

\* C7: a callback without a query string is answered at once with 400 and a
\* body containing "parameter missing"; a callback whose query string is
\* exactly `user=` is answered at once with 400 and a body containing
\* "value empty".
C7_InputValidation ==
    /\ \A r \in ReturnsOf("callback") :
         /\ r.req = None =>
              /\ r.resp.tag = "Ok"
              /\ r.resp.status = BAD_REQUEST
              /\ Contains(r.resp.body, ParameterMissing)
         /\ r.req = Some(UserKey) =>
              /\ r.resp.tag = "Ok"
              /\ r.resp.status = BAD_REQUEST
              /\ Contains(r.resp.body, ValueEmpty)
    /\ \A task \in Callbacks : task.req \notin {None, Some(UserKey)}

\* The callback with query `user=` has just been answered.
C7_Witness ==
    \E r \in ReturnsOf("callback") :
        r.req = Some(UserKey) /\ r.resp.status = BAD_REQUEST

\* The failure a 400 body reports: what it says is missing or empty.
FailureKind(body) ==
    IF Contains(body, MissingWord) THEN "MissingParameter"
    ELSE IF Contains(body, EmptyWord) THEN "EmptyParameter"
    ELSE "Other"

\* C8: a callback whose query string is present but does not begin with
\* `user=` is answered at once with a 400 that reports a missing parameter,
\* as the 400 for an absent query string does, and not an empty one.
C8_KeyAbsent ==
    /\ \A r \in ReturnsOf("callback") :
         (IsSome(r.req) /\ ~StartsWith(Unwrap(r.req), UserKey)) =>
             /\ r.resp.tag = "Ok"
             /\ r.resp.status = BAD_REQUEST
             /\ FailureKind(r.resp.body) = "MissingParameter"
             /\ FailureKind(r.resp.body)
                  = FailureKind(bad_request(MsgParameterMissing).body)
             /\ FailureKind(r.resp.body)
                  # FailureKind(bad_request(MsgValueEmpty).body)
    /\ \A task \in Callbacks : StartsWith(Unwrap(task.req), UserKey)

\* The callback with query `usera` has just been answered.
C8_Witness ==
    \E r \in ReturnsOf("callback") :
        /\ r.req = Some(<<117, 115, 101, 114, 97>>)
        /\ r.resp.status = BAD_REQUEST

\* Tokens the Session Store has minted.
Minted == {sessions[i].token : i \in 1..Len(sessions)}

\* C9: a lookup on `/__chiselstrike/auth/user/<t>` with t not minted is not
\* answered 200: the handler fails with the store's TokenNotFound.
C9_UnknownTokenFails ==
    \A r \in ReturnsOf("lookup") :
        LET token == strip_prefix(Unwrap(r.req), USERPATH)
        IN  (IsSome(token) /\ Unwrap(token) \notin Minted) =>
                /\ r.resp.tag = "Err"
                /\ r.resp.error = "TokenNotFound"
                /\ r.resp.status # OK

\* A lookup of a token that was not minted has just failed, while the store
\* holds another token.
C9_Witness ==
    /\ sessions # <<>>
    /\ \E r \in ReturnsOf("lookup") :
         /\ r.req = Some(USERPATH \o Token(2))
         /\ Token(2) \notin Minted
         /\ r.resp.tag = "Err"

\* C10: a lookup on `/__chiselstrike/auth/user/<t>` with t a token that a
\* callback redirect for username u handed out is answered 200 with body
\* exactly u, whatever happened in between.
C10_HandedTokenLooksUp ==
    \A r \in ReturnsOf("lookup") :
        \A c \in client_tokens :
            r.req = Some(USERPATH \o c.token) =>
                /\ IsSome(RequestedUsername(c.req))
                /\ r.resp = Response(OK, None, Unwrap(RequestedUsername(c.req)))

\* The first token, handed out for `user=%61`, is looked up after a second
\* callback got its token.
C10_Witness ==
    /\ Len(sessions) = 2
    /\ [token |-> Token(1), req |-> Some(UserKey \o <<37, 54, 49>>)] \in client_tokens
    /\ \E r \in ReturnsOf("lookup") :
         /\ r.req = Some(USERPATH \o Token(1))
         /\ r.resp.status = OK
         /\ r.resp.body = <<97>>

\* C11: a lookup on a path that does not begin with USERPATH is answered as a
\* client input error, a response of the 400 class and not a propagated
\* failure, and starts no resolution in the Session Store.
C11_WrongPathIs400 ==
    /\ \A r \in ReturnsOf("lookup") :
         IsNone(strip_prefix(Unwrap(r.req), USERPATH)) =>
             /\ r.at = "strip_prefix"
             /\ r.resp.tag = "Ok"
             /\ r.resp.status \in 400..499
    /\ \A task \in Suspended :
         task.kind = "lookup" => StartsWith(Unwrap(task.req), USERPATH)

\* C12: the credential extractor never returns an error: it returns
\* Some(username) when the header is present and its value resolves in the
\* Session Store, and None in every other case.
C12_NeverPropagates ==
    \A r \in ReturnsOf("extract") :
        /\ r.resp.tag = "Ok"
        /\ r.resp.value =
             (IF IsSome(r.req) /\ Unwrap(r.req) \in Minted
              THEN meta_get_username(sessions, Unwrap(r.req))
              ELSE None)

\* C13: with the two routes init registers, a request for the callback path
\* is dispatched to handle_callback and a request for USERPATH followed by
\* any token is dispatched to lookup_user, never to the other handler:
\* lookup_user runs only for paths that begin with USERPATH, and no such
\* request is left without a handler.
C13_RouteMatching ==
    /\ \A path \in RequestPaths :
         /\ path = CALLBACKPATH
              => dispatch(Routes, path) = Some("handle_callback")
         /\ StartsWith(path, USERPATH)
              => dispatch(Routes, path) = Some("lookup_user")
    /\ \A task \in Suspended :
         task.kind = "lookup" => StartsWith(Unwrap(task.req), USERPATH)
    /\ \A r \in ReturnsOf("lookup") : StartsWith(Unwrap(r.req), USERPATH)
    /\ \A r \in ReturnsOf("dispatch") :
         /\ Unwrap(r.req) # CALLBACKPATH
         /\ ~StartsWith(Unwrap(r.req), USERPATH)

\* With every request dispatched, a lookup of the first token has just been
\* answered 200 while a callback for `user=b` is suspended.
C13_Witness ==
    /\ \E r \in ReturnsOf("lookup") :
         /\ r.req = Some(USERPATH \o Token(1))
         /\ r.resp.status = OK
    /\ \E task \in Callbacks : task.req = Some(UserKey \o <<98>>)

\* The return made by the step, if it made one.
ReturnedNow == {returned'[i] : i \in DOMAIN returned'}

\* C14: whenever handle_callback answers 400 it does so in the step in which
\* the request arrived, for a query that is absent, lacks `user=` or has an
\* empty value, before the persist step: that step starts no insert and no
\* mint, and leaves the user table and the Session Store unchanged.
C14_BadRequestBeforePersist ==
    [][\A r \in ReturnedNow :
         (r.kind = "callback" /\ r.resp.status = BAD_REQUEST) =>
             /\ r.at = "parse"
             /\ \/ r.req = None
                \/ IsNone(strip_prefix(Unwrap(r.req), UserKey))
                \/ UserValue(r.req) = <<>>
             /\ table' = table
             /\ sessions' = sessions
             /\ tasks' = tasks
             /\ client_tokens' = client_tokens]_vars

\* A callback has just been answered 400 while the user table holds a row,
\* the Session Store holds a token and another callback is suspended.
C14_Witness ==
    /\ table # <<>>
    /\ sessions # <<>>
    /\ Callbacks # {}
    /\ \E r \in ReturnsOf("callback") : r.resp.status = BAD_REQUEST

\* Handlers that resolve a token.
Resolvers == {"lookup", "extract"}

\* The step is one of a resolver: it returns from one, resumes one or
\* suspends a new one.
ResolverStep ==
    \/ \E r \in ReturnedNow : r.kind \in Resolvers
    \/ \E task \in Suspended : task.kind \in Resolvers /\ Ended(task)
    \/ \E task \in BagToSet(tasks') : task.kind \in Resolvers /\ tasks' = Suspend(task)

\* C15: every step of the lookup handler and of the credential extractor,
\* successful or failing, leaves the Session Store and the user table as they
\* were, so every token resolves after the step to what it resolved before:
\* a step that changes the store or the table is not a resolver's.
C15_ResolutionReadOnly ==
    [][(sessions' # sessions \/ table' # table) => ~ResolverStep]_vars

\* A lookup of the first token has just been answered 200 while a credential
\* extraction for the same token is suspended.
C15_Witness ==
    /\ \E r \in ReturnsOf("lookup") :
         /\ r.req = Some(USERPATH \o Token(1))
         /\ r.resp.status = OK
    /\ \E task \in Suspended : task.kind = "extract" /\ task.local = Token(1)

\* C16: a get_userid_from_db(u) whose fetch the store executes returns the
\* id of the row with username u when exactly one row has it, fails with
\* NotFound when none has and with AmbiguousResult when several have; and
\* once a callback for u has returned a redirect it succeeds.
C16_UseridAfterRedirect ==
    \A r \in ReturnsOf("userid") :
        (r.at = "fetch_one" /\ r.resp.error # "StorageError") =>
            LET u == Unwrap(r.req)
            IN  /\ Cardinality(Rows(u)) = 1 =>
                     /\ r.resp.tag = "Ok"
                     /\ r.resp.value = Some(table[CHOOSE i \in Rows(u) : TRUE].id)
                /\ Cardinality(Rows(u)) = 0 =>
                     /\ r.resp.tag = "Err"
                     /\ r.resp.error = "NotFound"
                /\ Cardinality(Rows(u)) > 1 =>
                     /\ r.resp.tag = "Err"
                     /\ r.resp.error = "AmbiguousResult"
                /\ RedirectsOf(u) # {} => r.resp.tag = "Ok"

\* C17: no task holds a guard of runtime::get() while it is suspended at an
\* await (insert, fetch, mint, resolve), so the runtime is free for any other
\* task to acquire.
C17_NoLockAcrossAwait ==
    \A task \in Suspended :
        task.guards = 0

\* A callback is suspended at its mint while a get_userid_from_db is
\* suspended at its fetch.
C17_Witness ==
    /\ \E task \in Callbacks : task.pc = "new_session_token"
    /\ \E task \in Suspended : task.kind = "userid" /\ task.pc = "fetch_one"

C19_NoRollback ==
    /\ [](\A i \in 1..Len(sessions) :
            \E j \in 1..Len(table) : table[j].username = sessions[i].username)
    /\ [][\A task \in Callbacks :
            (task.pc = "new_session_token" /\ Ended(task) /\ sessions' = sessions) =>
                /\ IsSome(returned')
                /\ Unwrap(returned').resp.tag = "Err"
                /\ Unwrap(returned').resp.status # TEMPORARY_REDIRECT
                /\ IsNone(Unwrap(returned').resp.location)
                /\ client_tokens' = client_tokens
                /\ table' = table
                /\ \E j \in 1..Len(table') : table'[j].username = task.local]_vars

\* A callback has just failed at its mint: its username has a row in the
\* user table and no token in the Session Store, and no callback for it is
\* left.
C19_Witness ==
    \E r \in ReturnsOf("callback") :
        /\ r.at = "new_session_token"
        /\ r.resp.tag = "Err"
        /\ LET u == Unwrap(RequestedUsername(r.req))
           IN  /\ Rows(u) # {}
               /\ SessionsOf(u) = {}
               /\ Finished(u)

=============================================================================
